---------------------------- MODULE Spec2Model ----------------------------
(***************************************************************************)
(* image-text: TextPainter (src/src/lib.rs).                               *)
(*                                                                         *)
(* A TextBlock is shaped into a Buffer of layout runs, measured, reshaped  *)
(* for the alignments that need a definite width, placed by a two-axis     *)
(* AxisAlign, and its glyphs are composited onto an RGBA surface.          *)
(*                                                                         *)
(* f32 values are fixed-point integers counting half pixels (Px(1) = 2),   *)
(* so that "/ 2.0" of a whole-pixel length is exact, as it is in f32.      *)
(* Integer pixel coordinates (i32, u32) are plain integers.                *)
(*                                                                         *)
(* cosmic-text (Buffer, LayoutGlyph, SwashCache) and image (overlay) are   *)
(* dependencies whose code is not part of the repository.  They are        *)
(* modelled by the contract the specification gives for each collaborator: *)
(* a greedy soft wrap of glyph advances, one layout run per visual line,   *)
(* a rasterizer that may return no image, a clipped source-over overlay.   *)
(* What the contract leaves open (how many runs an entirely empty text     *)
(* yields) is chosen nondeterministically in Init and kept in `engine`.    *)
(***************************************************************************)
EXTENDS Integers, Sequences, FiniteSets, TLC

VARIABLES
    block,      \* the caller's TextBlock (read-only input of every call)
    engine,     \* fixed conventions of the shaping engine
    painter,    \* the long-lived TextPainter: font_system, swash_cache
    image,      \* the destination surface
    last,       \* what the last call did (its trace)
    calls       \* history of calls: <<[op, extent]>>

vars == <<block, engine, painter, image, last, calls>>

---------------------------------------------------------------------------
(* Bounds of the model *)

MaxCalls == 2          \* calls per behaviour
SurfaceW == 4          \* surface width in pixels
SurfaceH == 3          \* surface height in pixels

---------------------------------------------------------------------------
(* Values *)

None == <<>>
Some(v) == <<v>>

\* A pixel count as an f32 (half-pixel fixed point).
Px(n) == 2 * n

\* f32 / 2.0
Half(v) == v \div 2

\* f32::round, then `as i32`: nearest pixel, halves away from zero.
RoundPx(v) == IF v >= 0 THEN (v + 1) \div 2 ELSE -((1 - v) \div 2)

Max(a, b) == IF a >= b THEN a ELSE b

RECURSIVE Flatten(_)
Flatten(ss) == IF ss = <<>> THEN <<>> ELSE Head(ss) \o Flatten(Tail(ss))

---------------------------------------------------------------------------
(* Style model: TextAlign, AxisAlign, Text, TextBlock *)

TextAligns == {"Left", "Right", "End", "Center", "Justified"}

StartAt(v) == [kind |-> "StartAt", value |-> v]
EndAt(v) == [kind |-> "EndAt", value |-> v]
CenterAt(v) == [kind |-> "CenterAt", value |-> v]
CenterAtCanvasCenter == [kind |-> "CenterAtCanvasCenter", value |-> 0]

DEFAULT_FONT_SIZE == 32

White == <<255, 255, 255, 255>>

\* Text::new(text) with the given size, colour and relative line height.
Text(text, font_size, color, line_height) ==
    [text |-> text, font_size |-> font_size, font_weight |-> 400,
     color |-> color, font |-> None, line_height |-> line_height]

TextBlock(alignment, max_width, max_height, text_align, text_spans) ==
    [alignment |-> alignment, max_width |-> max_width, max_height |-> max_height,
     text_align |-> text_align, text_spans |-> text_spans, font |-> None]

---------------------------------------------------------------------------
(* The font: advances and rasterized glyphs at 1 px, scaled by font size.  *)
(* "a", "b": coverage masks; "e": a pre-coloured glyph; "z": a format      *)
(* character with no image; "nl": a line break.                            *)

Advance1(ch) == CASE ch = "a" -> 1 [] ch = "b" -> 2 [] ch = "e" -> 2 [] OTHER -> 0

Bitmap1(ch) ==
    CASE ch = "a" -> Some([left |-> 0, top |-> 1, width |-> 1, height |-> 1,
                           content |-> "Mask", data |-> <<255>>])
      [] ch = "b" -> Some([left |-> 1, top |-> 1, width |-> 1, height |-> 1,
                           content |-> "Mask", data |-> <<128>>])
      [] ch = "e" -> Some([left |-> 0, top |-> 1, width |-> 2, height |-> 1,
                           content |-> "Color",
                           data |-> <<255, 0, 0, 255, 0, 255, 0, 128>>])
      [] OTHER -> None

BytesPerPixel(content) == IF content = "Color" THEN 4 ELSE 1

\* The 1 px bitmap `b` at `s` pixels: every pixel becomes s x s pixels.
Scaled(b, s) ==
    LET w == b.width * s
        h == b.height * s
        n == BytesPerPixel(b.content)
        Byte(i) == LET p == (i - 1) \div n
                       c == (i - 1) % n
                       x == (p % w) \div s
                       y == (p \div w) \div s
                   IN  b.data[(y * b.width + x) * n + c + 1]
    IN  [placement |-> [left |-> b.left * s, top |-> b.top * s,
                        width |-> w, height |-> h],
         content |-> b.content,
         data |-> [i \in 1 .. (w * h * n) |-> Byte(i)]]

\* The rasterized form of `ch` at `s` pixels, if the font has one.
ScaledBitmap(ch, s) ==
    IF Bitmap1(ch) = None THEN None ELSE Some(Scaled(Bitmap1(ch)[1], s))

---------------------------------------------------------------------------
(* Shaping engine: cosmic_text::Buffer *)

Metrics(font_size, line_height) == [font_size |-> font_size, line_height |-> line_height]

\* Metrics::relative(font_size, line_height_scale)
MetricsRelative(font_size, scale) == Metrics(font_size, font_size * scale)

\* Buffer::new_empty(metrics)
BufferNewEmpty(metrics) ==
    [metrics |-> metrics, items |-> <<>>, align |-> None,
     width_opt |-> None, height_opt |-> None, runs |-> <<>>,
     shape_count |-> 0,      \* calls of shape_until_scroll on this buffer
     sizes |-> <<>>]         \* arguments of the calls of set_size

\* Buffer::set_rich_text: the spans become one text, each character with
\* the attributes of its span.
SetRichText(buffer, items) == [buffer EXCEPT !.items = items]

\* Buffer::set_size(width_opt, height_opt)
SetSize(buffer, width_opt, height_opt) ==
    [buffer EXCEPT !.width_opt = width_opt, !.height_opt = height_opt,
                   !.sizes = Append(@, <<width_opt, height_opt>>)]

\* BufferLine::set_align on every line of the buffer
SetAlign(buffer, align) == [buffer EXCEPT !.align = align]

ItemAdvance(item) == Advance1(item.ch) * item.metrics.font_size

RECURSIVE ItemsWidth(_)
ItemsWidth(items) ==
    IF items = <<>> THEN 0 ELSE ItemAdvance(Head(items)) + ItemsWidth(Tail(items))

\* The widest of a sequence of visual lines (0 for none).
RECURSIVE MaxItemsWidth(_)
MaxItemsWidth(vls) ==
    IF vls = <<>> THEN 0 ELSE Max(ItemsWidth(Head(vls)), MaxItemsWidth(Tail(vls)))

\* The paragraphs of a text: split at line breaks.  An entirely empty text
\* yields as many paragraphs as the engine's convention says.
RECURSIVE SplitParagraphs(_, _, _)
SplitParagraphs(items, cur, acc) ==
    IF items = <<>> THEN Append(acc, cur)
    ELSE IF Head(items).ch = "nl"
         THEN SplitParagraphs(Tail(items), <<>>, Append(acc, cur))
         ELSE SplitParagraphs(Tail(items), Append(cur, Head(items)), acc)

Paragraphs(eng, items) ==
    IF items = <<>>
    THEN [i \in 1 .. eng.empty_text_lines |-> <<>>]
    ELSE SplitParagraphs(items, <<>>, <<>>)

\* Greedy soft wrap of one paragraph: a glyph that does not fit after the
\* glyphs already on the line starts a new visual line; the first glyph of
\* a line is placed even when it alone is wider than the constraint.
RECURSIVE Wrap(_, _, _, _)
Wrap(items, width_opt, cur, acc) ==
    IF items = <<>> THEN Append(acc, cur)
    ELSE LET g == Head(items)
         IN  IF /\ width_opt # None
                /\ cur # <<>>
                /\ ItemsWidth(cur) + ItemAdvance(g) > width_opt[1]
             THEN Wrap(Tail(items), width_opt, <<g>>, Append(acc, cur))
             ELSE Wrap(Tail(items), width_opt, Append(cur, g), acc)

\* Visual lines with the box width their alignment is computed in: the
\* constraint when there is one, otherwise the widest of the lines.
Boxed(vls, width_opt) ==
    [i \in 1 .. Len(vls) |->
        [items |-> vls[i],
         box |-> IF width_opt # None THEN width_opt[1] ELSE MaxItemsWidth(vls)]]

\* The visual lines of a paragraph.
VisualLines(paragraph, width_opt) ==
    Boxed(Wrap(paragraph, width_opt, <<>>, <<>>), width_opt)

AlignOffset(align, box, w) ==
    CASE align = Some("Right") -> box - w
      [] align = Some("End") -> box - w
      [] align = Some("Center") -> Half(box - w)
      [] OTHER -> 0

\* The positioned glyphs of a visual line: pen offsets from the line start.
RECURSIVE LayoutGlyphs(_, _)
LayoutGlyphs(items, x) ==
    IF items = <<>> THEN <<>>
    ELSE LET g == Head(items)
         IN  <<[glyph_id |-> g.ch, font_size |-> g.metrics.font_size,
                x |-> x, y |-> 0, w |-> ItemAdvance(g),
                color_opt |-> g.color_opt]>>
             \o LayoutGlyphs(Tail(items), x + ItemAdvance(g))

\* The line height of a visual line: the largest line height of the spans
\* on it, the line height of the buffer for a line without glyphs.
RECURSIVE MaxLineHeight(_, _)
MaxLineHeight(items, floor) ==
    IF items = <<>> THEN floor
    ELSE Max(Head(items).metrics.line_height, MaxLineHeight(Tail(items), floor))

\* Buffer::layout_runs: one run per visual line, top to bottom, up to the
\* height of the box.
\* The layout run of visual line `vl`, the i-th, of height `lh`, at `top`.
LayoutRun(buffer, vl, i, top, lh) ==
    [line_i |-> i, line_top |-> top, line_y |-> top + lh,
     line_height |-> lh, line_w |-> ItemsWidth(vl.items),
     glyphs |-> LayoutGlyphs(vl.items,
                             AlignOffset(buffer.align, vl.box, ItemsWidth(vl.items)))]

VisualLineHeight(buffer, vl) ==
    MaxLineHeight(vl.items, IF vl.items = <<>> THEN buffer.metrics.line_height ELSE 0)

RECURSIVE LayoutRuns(_, _, _, _)
LayoutRuns(buffer, vls, i, top) ==
    IF i > Len(vls) THEN <<>>
    ELSE IF /\ buffer.height_opt # None
            /\ top + VisualLineHeight(buffer, vls[i]) > buffer.height_opt[1]
         THEN <<>>
         ELSE <<LayoutRun(buffer, vls[i], i, top, VisualLineHeight(buffer, vls[i]))>>
              \o LayoutRuns(buffer, vls, i + 1, top + VisualLineHeight(buffer, vls[i]))

RECURSIVE AllVisualLines(_, _)
AllVisualLines(paragraphs, width_opt) ==
    IF paragraphs = <<>> THEN <<>>
    ELSE VisualLines(Head(paragraphs), width_opt)
         \o AllVisualLines(Tail(paragraphs), width_opt)

\* Buffer::shape_until_scroll(font_system, prune)
ShapeUntilScroll(eng, buffer) ==
    [buffer EXCEPT
        !.runs = LayoutRuns(buffer,
                            AllVisualLines(Paragraphs(eng, buffer.items),
                                           buffer.width_opt),
                            1, 0),
        !.shape_count = @ + 1]

\* The keys the font system caches shaped text under.
ShapeKeys(buffer) == {<<it.ch, it.metrics.font_size>> : it \in
                        {buffer.items[i] : i \in 1 .. Len(buffer.items)}}

---------------------------------------------------------------------------
(* Rasterizer and surface: LayoutGlyph::physical, SwashCache::get_image,   *)
(* image::imageops::overlay                                                *)

\* LayoutGlyph::physical(offset, scale = 1.0): the integer pixel position
\* of the glyph and the key of its rasterized form.
Physical(glyph, offset) ==
    [cache_key |-> [glyph_id |-> glyph.glyph_id, font_size |-> glyph.font_size],
     x |-> RoundPx(glyph.x + offset[1]),
     y |-> RoundPx(glyph.y + offset[2])]

\* SwashCache::get_image(font_system, cache_key): Option<SwashImage>
SwashGetImage(cache_key) == ScaledBitmap(cache_key.glyph_id, cache_key.font_size \div 2)

\* Rgba<u8>::blend: source-over of `fg` on `bg`.
Blend(bg, fg) ==
    IF fg[4] = 0 THEN bg
    ELSE IF fg[4] = 255 THEN fg
    ELSE LET a == 255 * bg[4] + 255 * fg[4] - bg[4] * fg[4]
             C(k) == (255 * fg[k] * fg[4] + bg[k] * bg[4] * (255 - fg[4])) \div a
         IN  <<C(1), C(2), C(3), a \div 255>>

\* image::imageops::overlay(bottom, top, x, y): blends `top` onto `bottom`
\* with its top-left corner at (x, y); what falls outside `bottom` is cut.
Overlay(bottom, top, x, y) ==
    [bottom EXCEPT !.px =
        [p \in DOMAIN bottom.px |->
            LET i == p[1] - x
                j == p[2] - y
            IN  IF i >= 0 /\ i < top.width /\ j >= 0 /\ j < top.height
                THEN Blend(bottom.px[p], top.px[<<i, j>>])
                ELSE bottom.px[p]]]

PatchPoints(width, height) == (0 .. width - 1) \X (0 .. height - 1)

---------------------------------------------------------------------------
(* TextPainter (src/src/lib.rs) *)

\* TextPainter::new
NewPainter == [font_system |-> {}, swash_cache |-> {}]

\* match text_block.text_align { TextAlign::X => Align::X }
AlignOf(text_align) == text_align

\* The (text, attrs) pairs handed to set_rich_text, one item per character.
SpanItems(span) ==
    LET scale == IF span.line_height = None THEN 1 ELSE span.line_height[1]
    IN  [k \in 1 .. Len(span.text) |->
            [ch |-> span.text[k],
             metrics |-> MetricsRelative(span.font_size, scale),
             color_opt |-> Some(span.color)]]

\* TextPainter::shape_text_block
ShapeTextBlock(eng, text_block) ==
    LET spans == text_block.text_spans
        block_font_size ==
            IF spans = <<>> THEN Px(DEFAULT_FONT_SIZE) ELSE spans[1].font_size
        block_line_height ==
            IF spans # <<>> /\ spans[1].line_height # None
            THEN spans[1].line_height[1] ELSE 1
    IN  ShapeUntilScroll(eng,
            SetAlign(
                SetSize(
                    SetRichText(
                        BufferNewEmpty(MetricsRelative(block_font_size,
                                                       block_line_height)),
                        Flatten([i \in 1 .. Len(spans) |-> SpanItems(spans[i])])),
                    text_block.max_width, text_block.max_height),
                Some(AlignOf(text_block.text_align))))

\* buffer.layout_runs().fold(0.0, |width, run| run.line_w.max(width))
RECURSIVE FoldMaxLineW(_, _)
FoldMaxLineW(runs, width) ==
    IF runs = <<>> THEN width
    ELSE FoldMaxLineW(Tail(runs), Max(Head(runs).line_w, width))

\* TextPainter::measure_text_block_width
MeasureTextBlockWidth(buffer) == FoldMaxLineW(buffer.runs, 0)

\* Defect variant of measure_text_block_height: sums the line heights of
\* the runs instead of multiplying their count by the base line height.
RECURSIVE SumLineHeights(_)
SumLineHeights(runs) ==
    IF runs = <<>> THEN 0 ELSE Head(runs).line_height + SumLineHeights(Tail(runs))

MeasureTextBlockHeightPerRun(buffer) == SumLineHeights(buffer.runs)

\* TextPainter::measure_text_block_height
MeasureTextBlockHeight(buffer) == Len(buffer.runs) * buffer.metrics.line_height

\* Defect variant of shape_again_if_needed: TextAlign::End is left out of
\* the alignments that reshape.
ShapeAgainIfNeededNoEnd(eng, buffer, align, width_opt, height_opt) ==
    IF align \in {"Center", "Right", "Justified"}
    THEN ShapeUntilScroll(eng, SetSize(buffer, width_opt, height_opt))
    ELSE buffer

\* TextPainter::shape_again_if_needed
ShapeAgainIfNeeded(eng, buffer, align, width_opt, height_opt) ==
    IF align \in {"Center", "Right", "End", "Justified"}
    THEN ShapeUntilScroll(eng, SetSize(buffer, width_opt, height_opt))
    ELSE buffer

\* TextPainter::measure after shape_text_block gave `first`: the result,
\* the buffer after the first pass and the buffer the call ends with.
MeasureShaped(eng, text_block, first) ==
    LET width == MeasureTextBlockWidth(first)
        height == MeasureTextBlockHeight(first)
    IN  [result |-> <<width, height>>, first |-> first,
         buffer |-> ShapeAgainIfNeeded(eng, first, text_block.text_align,
                                       Some(width), Some(height))]

\* TextPainter::measure
MeasureOp(eng, text_block) ==
    MeasureShaped(eng, text_block, ShapeTextBlock(eng, text_block))

\* paint_text_block: `let buffer = { ... }` after shape_text_block gave
\* `first`.
Reshaped(eng, text_block, first) ==
    LET measured_width == MeasureTextBlockWidth(first)
    IN  [first |-> first,
         buffer |-> ShapeAgainIfNeeded(eng, first, text_block.text_align,
                                       Some(measured_width), text_block.max_height)]

\* paint_text_block: `let buffer = { ... }`
PaintBuffer(eng, text_block) ==
    Reshaped(eng, text_block, ShapeTextBlock(eng, text_block))

\* Defect variant of axis_position: the canvas centre is taken from the
\* surface width on both axes.
AxisPositionSurfaceWidth(align, text_direction, buffer, surface_width, surface_height) ==
    LET measurement ==
            IF text_direction = "Horizontal"
            THEN MeasureTextBlockWidth(buffer)
            ELSE MeasureTextBlockHeight(buffer)
    IN  CASE align.kind = "StartAt" -> align.value
          [] align.kind = "EndAt" -> align.value - measurement
          [] align.kind = "CenterAt" -> align.value - Half(measurement)
          [] align.kind = "CenterAtCanvasCenter" ->
                Half(Px(surface_width)) - Half(measurement)

\* paint_text_block: the closure axis_position
AxisPosition(align, text_direction, buffer, surface_width, surface_height) ==
    LET measurement ==
            IF text_direction = "Horizontal"
            THEN MeasureTextBlockWidth(buffer)
            ELSE MeasureTextBlockHeight(buffer)
        surface_length ==
            IF text_direction = "Horizontal" THEN surface_width ELSE surface_height
    IN  CASE align.kind = "StartAt" -> align.value
          [] align.kind = "EndAt" -> align.value - measurement
          [] align.kind = "CenterAt" -> align.value - Half(measurement)
          [] align.kind = "CenterAtCanvasCenter" ->
                Half(Px(surface_length)) - Half(measurement)

\* Defect variant of glyph_x: the left bearing is subtracted.
GlyphXSubtractsLeft(physical_glyph, placement) == physical_glyph.x - placement.left

\* add_text: glyph_x
GlyphX(physical_glyph, placement) == physical_glyph.x + placement.left

\* Defect variant of glyph_y: the baseline of the run is left out.
GlyphYNoBaseline(run, physical_glyph, placement) ==
    physical_glyph.y - placement.top

\* add_text: glyph_y
GlyphY(run, physical_glyph, placement) ==
    RoundPx(run.line_y) + physical_glyph.y - placement.top

\* Defect variant of the mask patch: the coverage is multiplied by the
\* alpha of the span colour.
MaskPatchPremultiplied(glyph, glyph_image) ==
    LET glyph_width == glyph_image.placement.width
        glyph_height == glyph_image.placement.height
        rgba == IF glyph.color_opt # None THEN glyph.color_opt[1] ELSE White
    IN  [width |-> glyph_width, height |-> glyph_height,
         px |-> [p \in PatchPoints(glyph_width, glyph_height) |->
                    <<rgba[1], rgba[2], rgba[3],
                      (glyph_image.data[p[2] * glyph_width + p[1] + 1] * rgba[4])
                          \div 255>>]]

\* add_text, SwashContent::Mask | SwashContent::SubpixelMask: the coverage
\* bytes become the alpha of a patch of the glyph's colour.
MaskPatch(glyph, glyph_image) ==
    LET glyph_width == glyph_image.placement.width
        glyph_height == glyph_image.placement.height
        rgba == IF glyph.color_opt # None THEN glyph.color_opt[1] ELSE White
    IN  [width |-> glyph_width, height |-> glyph_height,
         px |-> [p \in PatchPoints(glyph_width, glyph_height) |->
                    <<rgba[1], rgba[2], rgba[3],
                      glyph_image.data[p[2] * glyph_width + p[1] + 1]>>]]

\* add_text, SwashContent::Color: the image's RGBA bytes as they are.
ColorPatch(glyph, glyph_image) ==
    LET glyph_width == glyph_image.placement.width
        glyph_height == glyph_image.placement.height
    IN  [width |-> glyph_width, height |-> glyph_height,
         px |-> [p \in PatchPoints(glyph_width, glyph_height) |->
                    LET o == 4 * (p[2] * glyph_width + p[1])
                    IN  <<glyph_image.data[o + 1], glyph_image.data[o + 2],
                          glyph_image.data[o + 3], glyph_image.data[o + 4]>>]]

\* add_text: `match glyph_image.content { ... }`
GlyphPatch(glyph, glyph_image) ==
    IF glyph_image.content = "Color"
    THEN ColorPatch(glyph, glyph_image)
    ELSE MaskPatch(glyph, glyph_image)

\* add_text: the overlay of `patch` at (glyph_x, glyph_y), with its record
\* in the trace.
OverlayGlyph(st, run, glyph, physical_glyph, glyph_image, glyph_x, glyph_y, patch) ==
    [image |-> Overlay(st.image, patch, glyph_x, glyph_y),
     swash_cache |-> st.swash_cache \cup {physical_glyph.cache_key},
     trace |-> Append(st.trace,
                      [glyph |-> glyph, run |-> run.line_i,
                       skipped |-> FALSE, line_y |-> run.line_y,
                       physical |-> physical_glyph,
                       glyph_image |-> glyph_image,
                       glyph_x |-> glyph_x, glyph_y |-> glyph_y,
                       patch |-> patch])]

\* add_text: the inner loop after `let Some(glyph_image) = ... else continue`
CompositeGlyph(st, run, glyph, physical_glyph, glyph_image) ==
    OverlayGlyph(st, run, glyph, physical_glyph, glyph_image,
                 GlyphX(physical_glyph, glyph_image.placement),
                 GlyphY(run, physical_glyph, glyph_image.placement),
                 GlyphPatch(glyph, glyph_image))

\* add_text: the inner loop from the rasterizer's answer `image_opt` on.
AddPhysicalGlyph(st, run, glyph, physical_glyph, image_opt) ==
    IF image_opt = None
    THEN [st EXCEPT !.swash_cache = @ \cup {physical_glyph.cache_key},
                    !.trace = Append(@, [glyph |-> glyph, run |-> run.line_i,
                                         skipped |-> TRUE])]
    ELSE CompositeGlyph(st, run, glyph, physical_glyph, image_opt[1])

\* add_text: the body of the inner loop for one glyph of one run.  `st` is
\* the surface, the rasterizer cache and the trace of the glyphs so far.
AddGlyph(st, x, y, run, glyph) ==
    AddPhysicalGlyph(st, run, glyph, Physical(glyph, <<x, y>>),
                     SwashGetImage(Physical(glyph, <<x, y>>).cache_key))

\* Defect variant of the inner loop of add_text: a glyph with no image
\* ends the run (`break`) instead of being skipped (`continue`).
RECURSIVE AddRunGlyphsStop(_, _, _, _, _)
AddRunGlyphsStop(st, x, y, run, glyphs) ==
    IF glyphs = <<>> THEN st
    ELSE IF SwashGetImage(Physical(Head(glyphs), <<x, y>>).cache_key) = None
         THEN AddGlyph(st, x, y, run, Head(glyphs))
         ELSE AddRunGlyphsStop(AddGlyph(st, x, y, run, Head(glyphs)),
                               x, y, run, Tail(glyphs))

\* add_text: `for glyph in run.glyphs.iter()`
RECURSIVE AddRunGlyphs(_, _, _, _, _)
AddRunGlyphs(st, x, y, run, glyphs) ==
    IF glyphs = <<>> THEN st
    ELSE AddRunGlyphs(AddGlyph(st, x, y, run, Head(glyphs)), x, y, run, Tail(glyphs))

\* add_text: `for run in buffer.layout_runs()`
RECURSIVE AddRuns(_, _, _, _)
AddRuns(st, x, y, runs) ==
    IF runs = <<>> THEN st
    ELSE AddRuns(AddRunGlyphs(st, x, y, Head(runs), Head(runs).glyphs),
                 x, y, Tail(runs))

\* TextPainter::add_text
AddText(img, swash_cache, x, y, buffer) ==
    AddRuns([image |-> img, swash_cache |-> swash_cache, trace |-> <<>>],
            x, y, buffer.runs)

\* paint_text_block: what the call leaves, after add_text gave `drawn`.
PaintResult(p, shaped, x, y, drawn) ==
    [image |-> drawn.image,
     painter |-> [font_system |-> p.font_system \cup ShapeKeys(shaped.buffer),
                  swash_cache |-> drawn.swash_cache],
     first |-> shaped.first, buffer |-> shaped.buffer,
     origin |-> <<x, y>>, trace |-> drawn.trace]

\* paint_text_block: `self.add_text(image, x, y, &buffer)` at (x, y)
PaintAt(p, img, shaped, x, y) ==
    PaintResult(p, shaped, x, y, AddText(img, p.swash_cache, x, y, shaped.buffer))

\* paint_text_block: the origin of the shaped block, and the draw there
PaintShaped(p, img, text_block, shaped) ==
    PaintAt(p, img, shaped,
            AxisPosition(text_block.alignment.x, "Horizontal", shaped.buffer,
                         img.width, img.height),
            AxisPosition(text_block.alignment.y, "Vertical", shaped.buffer,
                         img.width, img.height))

\* TextPainter::paint_text_block on painter `p` and surface `img`
PaintTextBlockOp(eng, p, img, text_block) ==
    PaintShaped(p, img, text_block, PaintBuffer(eng, text_block))

---------------------------------------------------------------------------
(* Inputs *)

TextA == Text(<<"a">>, Px(1), White, None)
TextAAB == Text(<<"a", "a", "b">>, Px(1), <<255, 0, 0, 0>>, None)
TextZE == Text(<<"z", "e">>, Px(1), White, Some(2))
TextBA == Text(<<"b", "nl", "a">>, Px(2), <<0, 255, 0, 128>>, None)

SpanLists ==
    {<<>>, <<TextA>>, <<TextAAB>>, <<TextZE>>, <<TextBA>>,
     <<TextA, TextBA>>, <<TextBA, TextA>>, <<TextZE, TextAAB>>, <<TextAAB, TextZE>>}

Alignments ==
    {[x |-> StartAt(Px(-1)), y |-> StartAt(0)],
     [x |-> StartAt(Px(-1)), y |-> EndAt(Px(2))],
     [x |-> EndAt(Px(3)), y |-> EndAt(Px(2))],
     [x |-> EndAt(Px(3)), y |-> CenterAt(Px(1))],
     [x |-> CenterAt(Px(2) + 1), y |-> CenterAt(Px(1))],
     [x |-> CenterAt(Px(2) + 1), y |-> CenterAtCanvasCenter],
     [x |-> CenterAtCanvasCenter, y |-> CenterAtCanvasCenter],
     [x |-> CenterAtCanvasCenter, y |-> StartAt(0)]}

\* Every span list under every constraint, text alignment and position.
Blocks ==
    {TextBlock(al, mw, mh, ta, spans) :
        al \in Alignments,
        mw \in {None, Some(Px(1)), Some(Px(3))},
        mh \in {None, Some(Px(2))},
        ta \in TextAligns,
        spans \in SpanLists}

\* The caller's surface: opaque columns and translucent columns.
Surface(width, height) ==
    [width |-> width, height |-> height,
     px |-> [p \in PatchPoints(width, height) |->
                IF p[1] % 2 = 0 THEN <<0, 0, 255, 255>> ELSE <<10, 20, 30, 100>>]]

---------------------------------------------------------------------------
(* The state machine: one painter, one surface, one TextBlock; the caller  *)
(* draws with the painter, draws with a fresh painter (draw_text), or      *)
(* measures.                                                               *)

Init ==
    /\ block \in Blocks
    \* the convention is read only when the text is empty
    /\ engine \in {[empty_text_lines |-> n] :
                        n \in IF block.text_spans = <<>> THEN {0, 1} ELSE {1}}
    /\ painter = NewPainter
    /\ image = Surface(SurfaceW, SurfaceH)
    /\ last = [op |-> "none"]
    /\ calls = <<>>

PaintTrace(op, r) ==
    [op |-> op, before |-> image, first |-> r.first, buffer |-> r.buffer,
     extent |-> <<MeasureTextBlockWidth(r.buffer), MeasureTextBlockHeight(r.buffer)>>,
     origin |-> r.origin, trace |-> r.trace]

\* text_painter.paint_text_block(&mut image, block.clone())
PaintTextBlock ==
    /\ Len(calls) < MaxCalls
    /\ \E r \in {PaintTextBlockOp(engine, painter, image, block)} :
           /\ image' = r.image
           /\ painter' = r.painter
           /\ last' = PaintTrace("paint", r)
           /\ calls' = Append(calls, [op |-> "paint", extent |-> last'.extent])
    /\ UNCHANGED <<block, engine>>

\* draw_text(&mut image, block.clone()): a painter of its own
DrawText ==
    /\ Len(calls) < MaxCalls
    /\ \E r \in {PaintTextBlockOp(engine, NewPainter, image, block)} :
           /\ image' = r.image
           /\ last' = PaintTrace("draw", r)
           /\ calls' = Append(calls, [op |-> "draw", extent |-> last'.extent])
    /\ UNCHANGED <<block, engine, painter>>

\* text_painter.measure(&block)
Measure ==
    /\ Len(calls) < MaxCalls
    /\ \E r \in {MeasureOp(engine, block)} :
           /\ painter' = [painter EXCEPT !.font_system = @ \cup ShapeKeys(r.buffer)]
           /\ last' = [op |-> "measure", before |-> image, first |-> r.first,
                       buffer |-> r.buffer, extent |-> r.result,
                       origin |-> <<0, 0>>, trace |-> <<>>]
           /\ calls' = Append(calls, [op |-> "measure", extent |-> r.result])
    /\ UNCHANGED <<block, engine, image>>

Next == PaintTextBlock \/ DrawText \/ Measure

Spec == Init /\ [][Next]_vars

---------------------------------------------------------------------------
(* Properties *)

Drew == last.op \in {"paint", "draw"}

ReshapeAligns == {"Center", "Right", "End", "Justified"}

\* The entries of the trace of the last call that were composited.
Composited == {last.trace[i] : i \in {k \in 1 .. Len(last.trace) : ~last.trace[k].skipped}}

\* w is the largest line width of the runs, 0 when there are none.
IsMaxLineW(w, runs) ==
    /\ \A i \in 1 .. Len(runs) : runs[i].line_w <= w
    /\ IF runs = <<>> THEN w = 0 ELSE \E i \in 1 .. Len(runs) : runs[i].line_w = w

\* The table of section 4.3 of the specification, for one axis.
Resolved(align, measured_extent, surface_extent) ==
    CASE align.kind = "StartAt" -> align.value
      [] align.kind = "EndAt" -> align.value - measured_extent
      [] align.kind = "CenterAt" -> align.value - Half(measured_extent)
      [] align.kind = "CenterAtCanvasCenter" ->
            Half(surface_extent) - Half(measured_extent)

\* C1: paint_text_block resolves the origin of the block per axis by the
\* table StartAt(v) -> v, EndAt(v) -> v - extent, CenterAt(v) -> v - extent/2,
\* CenterAtCanvasCenter -> surface/2 - extent/2; x is a function of
\* alignment.x, the measured width and the surface width only, y of
\* alignment.y, the measured height and the surface height only.
C1_AxisResolution ==
    Drew =>
        /\ last.origin[1] = Resolved(block.alignment.x, last.extent[1], Px(image.width))
        /\ last.origin[2] = Resolved(block.alignment.y, last.extent[2], Px(image.height))

C1_Witness ==
    /\ last.op = "paint"
    /\ block.alignment.x.kind = "CenterAt"
    /\ block.alignment.y.kind = "CenterAtCanvasCenter"
    /\ last.extent[1] > 0
    /\ last.extent[2] > 0
    /\ last.extent[1] # last.extent[2]

HasImage(glyph) == SwashGetImage(Physical(glyph, last.origin).cache_key) # None

WithoutMissing(buffer) ==
    [buffer EXCEPT !.runs =
        [i \in 1 .. Len(buffer.runs) |->
            [buffer.runs[i] EXCEPT !.glyphs = SelectSeq(@, HasImage)]]]

\* C5: a glyph whose cache key has no image is skipped: the surface a draw
\* leaves is the surface the same draw leaves for the layout without the
\* imageless glyphs, so every later glyph of the run and of the later runs
\* is composited as if the missing glyph were not there, and the skipped
\* glyph is recorded as skipped and nothing else.
C5_MissingGlyphSkipped ==
    Drew =>
        /\ image = AddText(last.before, {}, last.origin[1], last.origin[2],
                           WithoutMissing(last.buffer)).image
        /\ Len(last.trace) = Len(Flatten([i \in 1 .. Len(last.buffer.runs) |->
                                             last.buffer.runs[i].glyphs]))

C5_Witness ==
    /\ Drew
    /\ \E i, j \in 1 .. Len(last.trace) :
          /\ i < j
          /\ last.trace[i].skipped
          /\ last.trace[i].run = last.trace[j].run
          /\ ~last.trace[j].skipped
    /\ image # last.before

C7_GlyphPosition ==
    Drew =>
        \A e \in Composited :
            /\ e.glyph_x = e.physical.x + e.glyph_image.placement.left
            /\ e.glyph_y = RoundPx(e.line_y) + e.physical.y
                             - e.glyph_image.placement.top

\* C7 (as stated): the left bearing is subtracted on x and the top bearing
\* on y.
C7_AsStated ==
    Drew =>
        \A e \in Composited :
            /\ e.glyph_x = e.physical.x - e.glyph_image.placement.left
            /\ e.glyph_y = RoundPx(e.line_y) + e.physical.y
                             - e.glyph_image.placement.top

C7_Witness ==
    /\ Drew
    /\ \E e \in Composited :
          /\ e.glyph_image.placement.left # 0
          /\ e.glyph_image.placement.top # 0
          /\ e.line_y > Px(1)
          /\ e.physical.x # 0

\* The layout whose extent a call reports: measure reads the layout of the
\* first pass, paint_text_block the layout it draws.
MeasuredLayout == IF last.op = "measure" THEN last.first ELSE last.buffer

BaseLineHeight ==
    IF block.text_spans = <<>> THEN Px(32)
    ELSE LET s == block.text_spans[1]
         IN  s.font_size * (IF s.line_height = None THEN 1 ELSE s.line_height[1])

\* C8: the measured extent is (W, H): W the largest line width of the
\* layout runs (0 without runs), H the number of runs times the one line
\* height of the first span (32 x 1.0 without spans), whatever the sizes
\* and line heights of the other spans.
C8_MeasuredExtent ==
    last.op # "none" =>
        LET runs == MeasuredLayout.runs
        IN  /\ IsMaxLineW(last.extent[1], runs)
            /\ last.extent[2] = Len(runs) * BaseLineHeight

C8_Witness ==
    /\ last.op = "measure"
    /\ Len(block.text_spans) = 2
    /\ block.text_spans[1].font_size # block.text_spans[2].font_size
    /\ \E i \in 1 .. Len(last.first.runs) :
          last.first.runs[i].line_height # BaseLineHeight
    /\ block.max_width # None
    /\ last.extent[1] # block.max_width[1]

\* C9: the extent measure returns is the extent paint_text_block resolves
\* the origin with, for the same TextBlock.
C9_MeasureIsPaintExtent ==
    \A i, j \in 1 .. Len(calls) :
        (calls[i].op = "measure" /\ calls[j].op \in {"paint", "draw"})
            => calls[i].extent = calls[j].extent

\* The pixels of the placement rectangle of every glyph of the drawn layout
\* that has an image, from the layout, the origin and the placements.
GlyphRects ==
    UNION {UNION {LET run == last.buffer.runs[i]
                      g == run.glyphs[k]
                      ph == Physical(g, last.origin)
                      im == SwashGetImage(ph.cache_key)
                  IN  IF im = None THEN {}
                      ELSE LET pl == im[1].placement
                               x0 == ph.x + pl.left
                               y0 == RoundPx(run.line_y) + ph.y - pl.top
                           IN  (x0 .. x0 + pl.width - 1) \X (y0 .. y0 + pl.height - 1)
                  : k \in 1 .. Len(last.buffer.runs[i].glyphs)}
           : i \in 1 .. Len(last.buffer.runs)}

\* C10: a draw changes the surface only inside the placement rectangles of
\* the composited glyphs, cut to the surface: every other pixel keeps its
\* value, the pixels stay those of [0, width) x [0, height), and the
\* dimensions stay.
C10_FrameOfDraw ==
    Drew =>
        /\ image.width = last.before.width
        /\ image.height = last.before.height
        /\ DOMAIN image.px = (0 .. image.width - 1) \X (0 .. image.height - 1)
        /\ \A p \in DOMAIN image.px :
              p \notin GlyphRects => image.px[p] = last.before.px[p]

C10_Witness ==
    /\ Drew
    /\ image # last.before
    /\ \E p \in GlyphRects : p[1] < 0 \/ p[2] < 0
    /\ \E p \in GlyphRects : p[1] >= image.width \/ p[2] >= image.height
    /\ \E p \in DOMAIN image.px : p \notin GlyphRects

============================================================================
